---- MODULE Spec2Model ----
(***************************************************************************)
(* BlockCraft Adventure main game controller (src/main.js): the mode       *)
(* machine (setState), the session lifecycle (startSinglePlayer,           *)
(* startMultiplayer, returnToMenu), the frame loop (gameLoop), the worker  *)
(* message handlers and loadGame.                                          *)
(*                                                                         *)
(* Spec is the controller with performance.now() standing still; SpecClock *)
(* lets the clock advance between handlers (the FPS counter of gameLoop).  *)
(*                                                                         *)
(* JavaScript handlers run to completion on one thread, so one action is   *)
(* one handler (or one continuation after an await / a promise callback).  *)
(* A handler is written as a function from the machine record m (the       *)
(* fields of `this`, the instances constructed so far, the callbacks       *)
(* queued and the collaborator calls made) to the machine after it.        *)
(***************************************************************************)
EXTENDS Integers, Sequences, FiniteSets, TLC

\* ------------------------------------------------------------------ bounds
\* Renderer / World / Player instances constructed in one run.
MaxObjects == 2
\* requestAnimationFrame callbacks queued at one time.
MaxRaf == 2
\* multiplayer.connect promises, StorageManager.loadGame promises and
\* StorageManager.saveGame promises pending (each).
MaxPending == 1
\* the last value of performance.now(), in milliseconds
MaxTime == 2000
\* frame passes counted in one sampling window
MaxFrames == 2

\* --------------------------------------------------------------- constants
LOADING == "loading"
MENU == "menu"
SINGLE_PLAYER == "single_player"
MULTIPLAYER == "multiplayer"
PAUSED == "paused"

GameState == {LOADING, MENU, SINGLE_PLAYER, MULTIPLAYER, PAUSED}

\* null / no instance; instances are numbered 1, 2, ... per class
Null == 0

\* the length of the FPS sampling window, in milliseconds
FpsWindow == 1000

\* the amounts performance.now() advances by between two handlers, in
\* milliseconds
TimeSteps == {500, 1000}

\* the three workers and the message type each onmessage handler accepts
WorkerKinds == {"worldGenerator", "physics", "pathfinding"}

MessageTypes == {"chunkGenerated", "physicsUpdate", "pathFound"}

HandledType(kind) ==
    CASE kind = "worldGenerator" -> "chunkGenerated"
      [] kind = "physics" -> "physicsUpdate"
      [] kind = "pathfinding" -> "pathFound"

ReceiveCall(kind) ==
    CASE kind = "worldGenerator" -> "world.receiveChunk"
      [] kind = "physics" -> "world.receivePhysicsUpdate"
      [] kind = "pathfinding" -> "world.receivePath"

\* seeds a save record may carry (Null: none)
Seeds == {Null, 42}

\* ------------------------------------------------------------------- state
VARIABLES
    state,              \* this.state
    renderer,           \* this.renderer: Null or the instance number
    world,              \* this.world
    player,             \* this.player
    ui,                 \* this.ui constructed
    audio,              \* this.audio constructed
    multiplayer,        \* this.multiplayer constructed
    workers,            \* the keys of this.workers
    isInitialized,      \* this.isInitialized
    isGameRunning,      \* this.isGameRunning (undefined reads as false)
    worldSeed,          \* the seed the last World was constructed with
    lastTime,           \* this.lastTime
    frameCount,         \* this.frameCount
    fps,                \* this.fps
    fpsUpdateTime,      \* this.fpsUpdateTime
    showFPS,            \* settings.get('showFPS')
    now,                \* performance.now()
    rendererCount,      \* Renderers constructed so far
    worldCount,         \* Worlds constructed so far
    playerCount,        \* Players constructed so far
    rendererDisposals,  \* instance -> number of dispose() calls on it
    worldDisposals,     \* instance -> number of dispose() calls on it
    connected,          \* the multiplayer session is connected
    initPc,             \* where init() is: "settings" (awaiting), "done", "failed"
    menuTimer,          \* the setTimeout of init is pending
    listening,          \* setupEventListeners has run
    rafPending,         \* requestAnimationFrame callbacks queued
    connectPending,     \* startMultiplayer calls awaiting multiplayer.connect
    loadPending,        \* loadGame calls awaiting StorageManager.loadGame
    workerCount,        \* Worker instances constructed so far
    savePending,        \* the records handed to StorageManager.saveGame, pending
    passesSeen,         \* frame passes run since fps was last assigned
    samples,            \* assignments of fps so far
    lastOp,             \* the handler that ran last: <<name, argument>>
    calls,              \* the collaborator calls that handler made, in order
    fault               \* a fault escaped that handler

vars == <<state, renderer, world, player, ui, audio, multiplayer, workers,
          isInitialized, isGameRunning, worldSeed, lastTime, frameCount, fps,
          fpsUpdateTime, showFPS, now, rendererCount, worldCount,
          playerCount, rendererDisposals, worldDisposals, connected, initPc,
          menuTimer, listening, rafPending, connectPending, loadPending,
          savePending, passesSeen, samples, workerCount, lastOp, calls,
          fault>>

Instances == 1..MaxObjects

\* the machine a handler starts from: the current state, no call made yet
Cur ==
    [state |-> state, renderer |-> renderer, world |-> world,
     player |-> player, ui |-> ui, multiplayer |-> multiplayer,
     isGameRunning |-> isGameRunning, worldSeed |-> worldSeed,
     lastTime |-> lastTime, frameCount |-> frameCount, fps |-> fps,
     fpsUpdateTime |-> fpsUpdateTime, showFPS |-> showFPS, now |-> now,
     rendererCount |-> rendererCount, worldCount |-> worldCount,
     playerCount |-> playerCount, rendererDisposals |-> rendererDisposals,
     worldDisposals |-> worldDisposals, connected |-> connected,
     rafPending |-> rafPending, connectPending |-> connectPending,
     workers |-> workers, workerCount |-> workerCount, calls |-> <<>>]

\* what an observer of the handler counts: a pass when the handler ran
\* gameLoop (its call of ui.update), a sample when it assigned fps (and moved
\* fpsUpdateTime)
Observe(m) ==
    LET passed == \E i \in 1..Len(m.calls) : m.calls[i] = "ui.update"
        sampled == m.fpsUpdateTime # fpsUpdateTime
    IN  /\ passesSeen' = IF sampled THEN 0
                         ELSE IF passed THEN passesSeen + 1 ELSE passesSeen
        /\ samples' = IF sampled THEN samples + 1 ELSE samples

\* the machine a handler leaves
Apply(m) ==
    /\ state' = m.state
    /\ renderer' = m.renderer
    /\ world' = m.world
    /\ player' = m.player
    /\ isGameRunning' = m.isGameRunning
    /\ worldSeed' = m.worldSeed
    /\ lastTime' = m.lastTime
    /\ frameCount' = m.frameCount
    /\ fps' = m.fps
    /\ fpsUpdateTime' = m.fpsUpdateTime
    /\ rendererCount' = m.rendererCount
    /\ worldCount' = m.worldCount
    /\ playerCount' = m.playerCount
    /\ rendererDisposals' = m.rendererDisposals
    /\ worldDisposals' = m.worldDisposals
    /\ connected' = m.connected
    /\ rafPending' = m.rafPending
    /\ connectPending' = m.connectPending
    /\ workers' = m.workers
    /\ workerCount' = m.workerCount
    /\ calls' = m.calls
    /\ Observe(m)

Call(m, c) == [m EXCEPT !.calls = Append(@, c)]

\* ---------------------------------------------------------------- handlers
\* the frame clock with the one-second test dropped: fps assigned every pass
FrameClock_EveryPass(m) ==
    LET currentTime == m.now
        m1 == [m EXCEPT !.lastTime = currentTime, !.frameCount = @ + 1]
        m2 == [m1 EXCEPT !.fps = m1.frameCount, !.frameCount = 0,
                         !.fpsUpdateTime = currentTime]
    IN  IF currentTime - m1.fpsUpdateTime >= 0
        THEN IF m2.showFPS THEN Call(m2, "ui.updateFPS") ELSE m2
        ELSE m1

\* the frame clock of gameLoop(): the time of the pass and the FPS counter
FrameClock(m) ==
    LET currentTime == m.now
        m1 == [m EXCEPT !.lastTime = currentTime, !.frameCount = @ + 1]
        m2 == [m1 EXCEPT !.fps = m1.frameCount, !.frameCount = 0,
                         !.fpsUpdateTime = currentTime]
    IN  IF currentTime - m1.fpsUpdateTime >= FpsWindow
        THEN IF m2.showFPS THEN Call(m2, "ui.updateFPS") ELSE m2
        ELSE m1

\* lastTime = performance.now(), before a handler starts the loop
StampTime(m) == [m EXCEPT !.lastTime = m.now]

\* gameLoop() with the render call moved before the player update
GameLoop_RenderFirst(m) ==
    LET m0 == IF ~m.isGameRunning THEN [m EXCEPT !.isGameRunning = TRUE] ELSE m
        m1 == FrameClock(m0)
        m2 == IF m1.world # Null THEN Call(m1, "world.update") ELSE m1
        m3 == IF m2.renderer # Null THEN Call(m2, "renderer.render") ELSE m2
        m4 == IF m3.player # Null THEN Call(m3, "player.update") ELSE m3
        m5 == IF m4.ui THEN Call(m4, "ui.update") ELSE m4
    IN  IF m5.isGameRunning THEN [m5 EXCEPT !.rafPending = @ + 1] ELSE m5

\* gameLoop(): one frame pass
GameLoop(m) ==
    LET m0 == IF ~m.isGameRunning THEN [m EXCEPT !.isGameRunning = TRUE] ELSE m
        m1 == FrameClock(m0)
        m2 == IF m1.world # Null THEN Call(m1, "world.update") ELSE m1
        m3 == IF m2.player # Null THEN Call(m2, "player.update") ELSE m2
        m4 == IF m3.renderer # Null THEN Call(m3, "renderer.render") ELSE m3
        m5 == IF m4.ui THEN Call(m4, "ui.update") ELSE m4
    IN  IF m5.isGameRunning THEN [m5 EXCEPT !.rafPending = @ + 1] ELSE m5

\* pauseGame()
PauseGame(m) == Call(Call(m, "ui.showPauseMenu"), "audio.pauseMusic")

\* resumeGame()
ResumeGame(m) ==
    GameLoop(StampTime(Call(Call(m, "ui.hidePauseMenu"), "audio.resumeMusic")))

\* returnToMenu() without the two assignments of null after dispose()
ReturnToMenu_KeepsRefs(m) ==
    LET m1 == Call([m EXCEPT !.isGameRunning = FALSE], "audio.stopMusic")
        m2 == IF m1.renderer # Null
              THEN [Call(m1, "renderer.dispose") EXCEPT
                       !.rendererDisposals[m1.renderer] = @ + 1]
              ELSE m1
        m3 == IF m2.world # Null
              THEN [Call(m2, "world.dispose") EXCEPT
                       !.worldDisposals[m2.world] = @ + 1]
              ELSE m2
        m4 == IF m3.multiplayer
              THEN [Call(m3, "multiplayer.disconnect") EXCEPT !.connected = FALSE]
              ELSE m3
    IN  Call(m4, "ui.showMainMenu")

\* returnToMenu() disposing the world before the renderer
ReturnToMenu_WorldFirst(m) ==
    LET m1 == Call([m EXCEPT !.isGameRunning = FALSE], "audio.stopMusic")
        m2 == IF m1.world # Null
              THEN [Call(m1, "world.dispose") EXCEPT
                       !.worldDisposals[m1.world] = @ + 1,
                       !.world = Null]
              ELSE m1
        m3 == IF m2.renderer # Null
              THEN [Call(m2, "renderer.dispose") EXCEPT
                       !.rendererDisposals[m2.renderer] = @ + 1,
                       !.renderer = Null]
              ELSE m2
        m4 == IF m3.multiplayer
              THEN [Call(m3, "multiplayer.disconnect") EXCEPT !.connected = FALSE]
              ELSE m3
    IN  Call(m4, "ui.showMainMenu")

\* returnToMenu()
ReturnToMenu(m) ==
    LET m1 == Call([m EXCEPT !.isGameRunning = FALSE], "audio.stopMusic")
        m2 == IF m1.renderer # Null
              THEN [Call(m1, "renderer.dispose") EXCEPT
                       !.rendererDisposals[m1.renderer] = @ + 1,
                       !.renderer = Null]
              ELSE m1
        m3 == IF m2.world # Null
              THEN [Call(m2, "world.dispose") EXCEPT
                       !.worldDisposals[m2.world] = @ + 1,
                       !.world = Null]
              ELSE m2
        m4 == IF m3.multiplayer
              THEN [Call(m3, "multiplayer.disconnect") EXCEPT !.connected = FALSE]
              ELSE m3
    IN  Call(m4, "ui.showMainMenu")

\* showError(message)
ShowError(m) == Call(m, "ui.showError")

RECURSIVE SetState(_, _, _)

\* startSinglePlayer constructing a fresh world generator worker for the
\* session, in place of the one made at startup
StartSinglePlayer_NewWorker(m, seed, failAt) ==
    LET m0 == [Call(m, "new Worker") EXCEPT !.workerCount = @ + 1]
        m1 == [Call(m0, "new Renderer") EXCEPT
                  !.rendererCount = @ + 1, !.renderer = m.rendererCount + 1]
        m2 == [Call(m1, "new World") EXCEPT
                  !.worldCount = @ + 1, !.world = m1.worldCount + 1,
                  !.worldSeed = seed]
        m3 == [Call(Call(m2, "world.getSpawnPoint"), "new Player") EXCEPT
                  !.playerCount = @ + 1, !.player = m2.playerCount + 1]
        m4 == Call(m3, "world.setPlayer")
        m5 == GameLoop(StampTime(m4))
        m6 == Call(m5, "audio.playMusic")
        thrown == IF failAt = "renderer" THEN m0 ELSE m1
    IN  IF failAt = "none"
        THEN m6
        ELSE SetState(ShowError(thrown), MENU, "none")

\* startSinglePlayer(worldName, worldSeed, worldType); failAt is the
\* constructor that throws, if any
StartSinglePlayer(m, seed, failAt) ==
    LET m1 == [Call(m, "new Renderer") EXCEPT
                  !.rendererCount = @ + 1, !.renderer = m.rendererCount + 1]
        m2 == [Call(m1, "new World") EXCEPT
                  !.worldCount = @ + 1, !.world = m1.worldCount + 1,
                  !.worldSeed = seed]
        m3 == [Call(Call(m2, "world.getSpawnPoint"), "new Player") EXCEPT
                  !.playerCount = @ + 1, !.player = m2.playerCount + 1]
        m4 == Call(m3, "world.setPlayer")
        m5 == GameLoop(StampTime(m4))
        m6 == Call(m5, "audio.playMusic")
        thrown == IF failAt = "renderer" THEN m ELSE m1
    IN  IF failAt = "none"
        THEN m6
        ELSE SetState(ShowError(thrown), MENU, "none")

\* startMultiplayer(serverAddress) up to its await
StartMultiplayer(m, failAt) ==
    LET m1 == [Call(m, "new Renderer") EXCEPT
                  !.rendererCount = @ + 1, !.renderer = m.rendererCount + 1]
        m2 == [Call(m1, "multiplayer.connect") EXCEPT !.connectPending = @ + 1]
    IN  IF failAt = "renderer"
        THEN SetState(ShowError(m), MENU, "none")
        ELSE m2

\* startMultiplayer after multiplayer.connect resolved
ConnectResolved(m, failAt) ==
    LET m1 == [Call(Call(m, "multiplayer.getSpawnPoint"), "new Player") EXCEPT
                  !.playerCount = @ + 1, !.player = m.playerCount + 1,
                  !.connected = TRUE]
        m2 == [Call(m1, "new World") EXCEPT
                  !.worldCount = @ + 1, !.world = m1.worldCount + 1,
                  !.worldSeed = Null]
        m3 == Call(Call(m2, "world.setPlayer"), "world.setMultiplayer")
        m4 == GameLoop(StampTime(m3))
        m5 == Call(m4, "audio.playMusic")
    IN  IF failAt = "world"
        THEN SetState(ShowError(m1), MENU, "none")
        ELSE m5

\* startMultiplayer after multiplayer.connect rejected
ConnectRejected(m) == SetState(ShowError(m), MENU, "none")

\* setState(newState); failAt is passed on to the entry action
SetState(m, newState, failAt) ==
    LET m1 == [m EXCEPT !.state = newState]
    IN  CASE newState = SINGLE_PLAYER -> StartSinglePlayer(m1, Null, failAt)
          [] newState = MULTIPLAYER -> StartMultiplayer(m1, failAt)
          [] newState = PAUSED -> PauseGame(m1)
          [] newState = MENU -> ReturnToMenu(m1)
          [] OTHER -> m1

\* ------------------------------------------------------------------ actions
Init ==
    /\ state = LOADING
    /\ renderer = Null
    /\ world = Null
    /\ player = Null
    /\ ui = FALSE
    /\ audio = FALSE
    /\ multiplayer = FALSE
    /\ workers = {}
    /\ isInitialized = FALSE
    /\ isGameRunning = FALSE
    /\ worldSeed = Null
    /\ lastTime = 0
    /\ frameCount = 0
    /\ fps = 0
    /\ fpsUpdateTime = 0
    /\ showFPS = FALSE
    /\ now = 0
    /\ rendererCount = 0
    /\ worldCount = 0
    /\ playerCount = 0
    /\ rendererDisposals = [i \in Instances |-> 0]
    /\ worldDisposals = [i \in Instances |-> 0]
    /\ connected = FALSE
    /\ initPc = "settings"
    /\ menuTimer = FALSE
    /\ listening = FALSE
    /\ rafPending = 0
    /\ connectPending = 0
    /\ loadPending = 0
    /\ savePending = <<>>
    /\ workerCount = 0
    /\ passesSeen = 0
    /\ samples = 0
    /\ lastOp = <<"constructor", "">>
    /\ calls = <<>>
    /\ fault = FALSE

\* what init sets and the handlers after it leave alone (loadGame's
\* settings.load apart)
InitVars == <<ui, audio, multiplayer, isInitialized, initPc, listening,
              showFPS, now>>

\* a handler may construct one more Renderer, World and Player and queue one
\* more frame callback within the bounds
RoomForSession ==
    /\ rendererCount < MaxObjects
    /\ worldCount < MaxObjects
    /\ playerCount < MaxObjects
    /\ rafPending < MaxRaf
    /\ frameCount < MaxFrames

InitFailPoints == {"none", "settings", "audio", "ui", "multiplayer", "workers"}

\* init() from its await of settings.load() on; failAt is the step that
\* rejects or throws, if any.  The catch calls showError, which dereferences
\* this.ui: with no UIManager constructed yet that is a fault of its own.
InitResume(failAt) ==
    /\ initPc = "settings"
    /\ showFPS' \in (IF failAt = "settings" THEN {FALSE} ELSE BOOLEAN)
    /\ audio' = (failAt \notin {"settings", "audio"})
    /\ ui' = (failAt \notin {"settings", "audio", "ui"})
    /\ multiplayer' = (failAt \notin {"settings", "audio", "ui", "multiplayer"})
    /\ workers' = IF failAt = "none" THEN WorkerKinds ELSE {}
    /\ workerCount' = Cardinality(workers')
    /\ listening' = (failAt = "none")
    /\ menuTimer' = (failAt = "none")
    /\ isInitialized' = (failAt = "none")
    /\ initPc' = IF failAt = "none" THEN "done" ELSE "failed"
    /\ calls' = IF failAt = "none" THEN <<"ui.setupEventListeners">>
                ELSE IF ui' THEN <<"ui.showError">> ELSE <<>>
    /\ fault' = (failAt # "none" /\ ~ui')
    /\ lastOp' = <<"init", failAt>>
    /\ UNCHANGED <<state, renderer, world, player, isGameRunning, worldSeed,
                   lastTime, frameCount, fps, fpsUpdateTime, now, rendererCount, worldCount, playerCount, rendererDisposals,
                   worldDisposals, connected, rafPending, connectPending,
                   loadPending, savePending, passesSeen, samples>>

\* the setTimeout callback of init
MenuTimer ==
    /\ menuTimer
    /\ menuTimer' = FALSE
    /\ Apply(Call(SetState(Cur, MENU, "none"), "ui.showMainMenu"))
    /\ fault' = FALSE
    /\ lastOp' = <<"menuTimer", "">>
    /\ UNCHANGED <<InitVars, loadPending, savePending>>

EntryFailPoints(s) ==
    CASE s = SINGLE_PLAYER -> {"none", "renderer", "world"}
      [] s = MULTIPLAYER -> {"none", "renderer"}
      [] OTHER -> {"none"}

\* a caller (the UI) requests setState(s)
SetStateReq(s, failAt) ==
    /\ listening
    /\ failAt \in EntryFailPoints(s)
    /\ s = SINGLE_PLAYER => RoomForSession
    /\ s = MULTIPLAYER => rendererCount < MaxObjects /\ connectPending < MaxPending
    /\ Apply(SetState(Cur, s, failAt))
    /\ fault' = FALSE
    /\ lastOp' = <<"setState", s>>
    /\ UNCHANGED <<InitVars, menuTimer, loadPending, savePending>>

\* a caller requests resumeGame(); the pause menu offers it, so in Paused
ResumeReq ==
    /\ listening
    /\ state = PAUSED
    /\ rafPending < MaxRaf
    /\ frameCount < MaxFrames
    /\ Apply(ResumeGame(Cur))
    /\ fault' = FALSE
    /\ lastOp' = <<"resumeGame", "">>
    /\ UNCHANGED <<InitVars, menuTimer, loadPending, savePending>>

\* the host runs one queued requestAnimationFrame callback
FrameTick ==
    /\ rafPending > 0
    /\ frameCount < MaxFrames
    /\ Apply(GameLoop([Cur EXCEPT !.rafPending = @ - 1]))
    /\ fault' = FALSE
    /\ lastOp' = <<"frame", "">>
    /\ UNCHANGED <<InitVars, menuTimer, loadPending, savePending>>

\* multiplayer.connect resolves
ConnectResolve(failAt) ==
    /\ connectPending > 0
    /\ worldCount < MaxObjects
    /\ playerCount < MaxObjects
    /\ rafPending < MaxRaf
    /\ frameCount < MaxFrames
    /\ Apply(ConnectResolved([Cur EXCEPT !.connectPending = @ - 1], failAt))
    /\ fault' = FALSE
    /\ lastOp' = <<"connectResolved", failAt>>
    /\ UNCHANGED <<InitVars, menuTimer, loadPending, savePending>>

\* multiplayer.connect rejects
ConnectReject ==
    /\ connectPending > 0
    /\ Apply(ConnectRejected([Cur EXCEPT !.connectPending = @ - 1]))
    /\ fault' = FALSE
    /\ lastOp' = <<"connectRejected", "">>
    /\ UNCHANGED <<InitVars, menuTimer, loadPending, savePending>>

\* a worker posts a message of the given type; the onmessage handler
\* dereferences this.world unguarded, and the fault it raises with no World
\* reaches the window 'error' listener, which calls showError
WorkerMessage(kind, type) ==
    /\ kind \in workers
    /\ Apply(IF type # HandledType(kind) THEN Cur
             ELSE IF world # Null THEN Call(Cur, ReceiveCall(kind))
             ELSE ShowError(Cur))
    /\ fault' = (type = HandledType(kind) /\ world = Null)
    /\ lastOp' = <<"workerMessage", kind>>
    /\ UNCHANGED <<InitVars, menuTimer, loadPending, savePending>>

\* a caller requests loadGame(saveId)
LoadGame ==
    /\ listening
    /\ loadPending < MaxPending
    /\ loadPending' = loadPending + 1
    /\ Apply(Call(Cur, "StorageManager.loadGame"))
    /\ fault' = FALSE
    /\ lastOp' = <<"loadGame", "">>
    /\ UNCHANGED <<InitVars, menuTimer, savePending>>

\* the .then callback of loadGame with a record: the dereferences of
\* this.player and this.world after startSinglePlayer throw when that is
\* null, and the .catch callback reports it
LoadApply(m, seed, failAt) ==
    LET m1 == StartSinglePlayer(Call(m, "settings.load"), seed, failAt)
    IN  IF m1.player = Null THEN Call(m1, "ui.showError")
        ELSE IF m1.world = Null
             THEN Call(Call(m1, "player.load"), "ui.showError")
             ELSE Call(Call(Call(m1, "player.load"), "world.load"),
                       "ui.showMessage")

\* StorageManager.loadGame resolves, to a record or to none; the record
\* carries a seed and a settings snapshot (shown), which settings.load
\* applies asynchronously, after the handler
LoadResolve(found, seed, shown, failAt) ==
    /\ loadPending > 0
    /\ found => RoomForSession
    /\ ~found => seed = Null /\ shown = showFPS /\ failAt = "none"
    /\ loadPending' = loadPending - 1
    /\ showFPS' = shown
    /\ Apply(IF found THEN LoadApply(Cur, seed, failAt)
             ELSE Call(Cur, "ui.showError"))
    /\ fault' = FALSE
    /\ lastOp' = <<"loadResolved", IF found THEN "record" ELSE "none">>
    /\ UNCHANGED <<ui, audio, multiplayer, isInitialized, initPc,
                   listening, now, menuTimer, savePending>>

\* StorageManager.loadGame rejects
LoadReject ==
    /\ loadPending > 0
    /\ loadPending' = loadPending - 1
    /\ Apply(Call(Cur, "ui.showError"))
    /\ fault' = FALSE
    /\ lastOp' = <<"loadRejected", "">>
    /\ UNCHANGED <<InitVars, menuTimer, savePending>>

\* performance.now() advances by d while no handler runs
Tick(d) ==
    /\ now + d <= MaxTime
    /\ now' = now + d
    /\ lastOp' = <<"tick", "">>
    /\ calls' = <<>>
    /\ fault' = FALSE
    /\ UNCHANGED <<state, renderer, world, player, ui, audio, multiplayer,
                   workers, isInitialized, isGameRunning, worldSeed, lastTime,
                   frameCount, fps, fpsUpdateTime, showFPS, rendererCount,
                   worldCount, playerCount, rendererDisposals, worldDisposals,
                   connected, initPc, menuTimer, listening, rafPending,
                   connectPending, loadPending, savePending, passesSeen,
                   samples, workerCount>>

Next ==
    \/ \E failAt \in InitFailPoints : InitResume(failAt)
    \/ MenuTimer
    \/ \E s \in GameState, failAt \in {"none", "renderer", "world"} :
          SetStateReq(s, failAt)
    \/ ResumeReq
    \/ FrameTick
    \/ \E failAt \in {"none", "world"} : ConnectResolve(failAt)
    \/ ConnectReject
    \/ \E kind \in WorkerKinds, type \in MessageTypes : WorkerMessage(kind, type)
    \/ LoadGame
    \/ \E found \in BOOLEAN, seed \in Seeds, shown \in BOOLEAN,
          failAt \in {"none", "renderer", "world"} :
             LoadResolve(found, seed, shown, failAt)
    \/ LoadReject

\* the controller at one instant of performance.now(): every handler, no
\* advance of the clock
Spec == Init /\ [][Next]_vars

\* the controller with the clock advancing between handlers
NextClock ==
    \/ Next
    \/ \E d \in TimeSteps : Tick(d)

SpecClock == Init /\ [][NextClock]_vars

\* a caller requests startSinglePlayer(worldName, worldSeed, worldType)
\* directly, the only entry that takes a seed
StartSinglePlayerReq(seed, failAt) ==
    /\ listening
    /\ RoomForSession
    /\ Apply(StartSinglePlayer(Cur, seed, failAt))
    /\ fault' = FALSE
    /\ lastOp' = <<"startSinglePlayer", ToString(seed)>>
    /\ UNCHANGED <<InitVars, menuTimer, loadPending, savePending>>

\* the record saveGame builds: what world.save(), player.save() and
\* settings.save() return for the held objects, and Date.now(), read off the
\* same clock as performance.now()
SaveData_StaleTime ==
    [world |-> world, player |-> player, settings |-> 1, timestamp |-> lastTime]

SaveData ==
    [world |-> world, player |-> player, settings |-> 1, timestamp |-> now]

\* a caller requests saveGame()
SaveGame ==
    /\ listening
    /\ Len(savePending) < MaxPending
    /\ IF world # Null /\ player # Null
       THEN /\ savePending' = Append(savePending, SaveData)
            /\ Apply(Call(Call(Call(Call(Cur, "world.save"), "player.save"),
                               "settings.save"), "StorageManager.saveGame"))
       ELSE /\ savePending' = savePending
            /\ Apply(Cur)
    /\ fault' = FALSE
    /\ lastOp' = <<"saveGame", "">>
    /\ UNCHANGED <<InitVars, menuTimer, loadPending>>

\* StorageManager.saveGame resolves
SaveResolve ==
    /\ savePending # <<>>
    /\ savePending' = Tail(savePending)
    /\ Apply(Call(Cur, "ui.showMessage"))
    /\ fault' = FALSE
    /\ lastOp' = <<"saveResolved", "">>
    /\ UNCHANGED <<InitVars, menuTimer, loadPending>>

\* StorageManager.saveGame rejects
SaveReject ==
    /\ savePending # <<>>
    /\ savePending' = Tail(savePending)
    /\ Apply(Call(Cur, "ui.showError"))
    /\ fault' = FALSE
    /\ lastOp' = <<"saveRejected", "">>
    /\ UNCHANGED <<InitVars, menuTimer, loadPending>>

\* the requests of a single-player session
PlayRequests == {SINGLE_PLAYER, PAUSED, MENU}

\* a single-player session with the clock advancing between handlers: the
\* mode requests, resume and frames
NextFps ==
    \/ \E failAt \in InitFailPoints : InitResume(failAt)
    \/ MenuTimer
    \/ \E s \in PlayRequests, failAt \in {"none", "renderer", "world"} :
          SetStateReq(s, failAt)
    \/ ResumeReq
    \/ FrameTick
    \/ \E d \in TimeSteps : Tick(d)

SpecFps == Init /\ [][NextFps]_vars

\* the requests a caller makes of a single-player session, with the clock
\* advancing between handlers: the mode requests, the direct start with a
\* seed, and saves with their storage outcomes
NextSave ==
    \/ \E failAt \in InitFailPoints : InitResume(failAt)
    \/ MenuTimer
    \/ \E s \in PlayRequests, failAt \in {"none", "renderer", "world"} :
          SetStateReq(s, failAt)
    \/ \E seed \in Seeds, failAt \in {"none", "renderer", "world"} :
          StartSinglePlayerReq(seed, failAt)
    \/ SaveGame
    \/ SaveResolve
    \/ SaveReject
    \/ \E d \in TimeSteps : Tick(d)

SpecSave == Init /\ [][NextSave]_vars

TypeOK ==
    /\ state \in GameState
    /\ renderer \in 0..rendererCount
    /\ world \in 0..worldCount
    /\ player \in 0..playerCount
    /\ rafPending \in 0..MaxRaf
    /\ connectPending \in 0..MaxPending
    /\ loadPending \in 0..MaxPending
    /\ Len(savePending) \in 0..MaxPending
    /\ passesSeen \in 0..MaxFrames
    /\ samples \in Nat


\* ------------------------------------------------------------- properties
Range(s) == {s[i] : i \in 1..Len(s)}

PlayModes == {SINGLE_PLAYER, MULTIPLAYER}

\* the handler that ran last went through returnToMenu (its only caller of
\* audio.stopMusic)
RanTeardown == "audio.stopMusic" \in Range(calls)

\* the handler that ran last was a frame callback
RanFrame == lastOp[1] = "frame"

\* a session is held: renderer, world and player are all set
SessionHeld == renderer # Null /\ world # Null /\ player # Null

LiveRenderers == {i \in 1..rendererCount : rendererDisposals[i] = 0}

LiveWorlds == {i \in 1..worldCount : worldDisposals[i] = 0}

\* the transition table of the mode machine
ValidTransitions ==
    {<<LOADING, MENU>>, <<MENU, SINGLE_PLAYER>>, <<MENU, MULTIPLAYER>>,
     <<SINGLE_PLAYER, PAUSED>>, <<MULTIPLAYER, PAUSED>>,
     <<PAUSED, SINGLE_PLAYER>>, <<PAUSED, MULTIPLAYER>>,
     <<SINGLE_PLAYER, MENU>>, <<MULTIPLAYER, MENU>>, <<PAUSED, MENU>>}

\* C1: a setState request whose entry action does not fail takes the mode
\* to its target when the pair is in the table, and leaves the mode unchanged
\* and runs no entry action when the pair is outside the table.
C1_ModeFollowsTable ==
    [][(lastOp'[1] = "setState" /\ "ui.showError" \notin Range(calls')) =>
          IF <<state, lastOp'[2]>> \in ValidTransitions
          THEN state' = lastOp'[2]
          ELSE state' = state /\ calls' = <<>>]_vars

\* C2: while the mode is Paused with a session held, no frame pass
\* executes, and a pause request in a play mode leaves renderer, world and
\* player as they were.
C2_NoPassWhilePaused ==
    /\ [](~(state = PAUSED /\ SessionHeld /\ RanFrame))
    /\ [][(lastOp' = <<"setState", PAUSED>> /\ state \in PlayModes) =>
             /\ renderer' = renderer /\ world' = world /\ player' = player
             /\ rendererDisposals' = rendererDisposals
             /\ worldDisposals' = worldDisposals]_vars

\* the play mode of the session held: a multiplayer session is connected
HeldPlayMode == IF connected THEN MULTIPLAYER ELSE SINGLE_PLAYER

\* the handler that ran last was a resume request: resumeGame(), or
\* setState to a play mode with no entry failure
RanResume ==
    \/ lastOp = <<"resumeGame", "">>
    \/ /\ lastOp[1] = "setState"
       /\ lastOp[2] \in PlayModes
       /\ "ui.showError" \notin Range(calls)

\* C3: a resume request in Paused with a session held (resumeGame, or
\* setState to the play mode of that session) takes the mode back to that
\* play mode and keeps the renderer, world and player instances, constructing
\* none.
C3_ResumeKeepsSession ==
    [][(/\ state = PAUSED
        /\ SessionHeld
        /\ RanResume'
        /\ lastOp'[1] = "setState" => lastOp'[2] = HeldPlayMode) =>
          /\ state' = HeldPlayMode
          /\ renderer' = renderer /\ world' = world /\ player' = player
          /\ rendererCount' = rendererCount
          /\ worldCount' = worldCount
          /\ playerCount' = playerCount]_vars

\* C4: in Menu with no World (after a quit, before a new session) no frame
\* pass runs and the run flag stays cleared, whatever callback was queued
\* when the session was quit.
C4_QuitStopsLoop ==
    (state = MENU /\ world = Null) => (~RanFrame /\ ~isGameRunning)

\* C5: a worker message handled with no World raises no fault and makes no
\* collaborator call.
C5_StaleMessageDropped ==
    (lastOp[1] = "workerMessage" /\ world = Null) => (~fault /\ calls = <<>>)

\* C6: at most one Renderer and at most one World are constructed and not
\* yet disposed.
C6_OneSession ==
    Cardinality(LiveRenderers) <= 1 /\ Cardinality(LiveWorlds) <= 1

\* C7: after setState(MENU) the controller holds no renderer, no world and
\* no player.
C7_QuitClearsSession ==
    lastOp = <<"setState", MENU>> =>
        (renderer = Null /\ world = Null /\ player = Null)

\* C8: when connect rejects during an entry to Multiplayer made with no
\* session live (the renderer of the entry being the only one not disposed,
\* no World), the mode falls back to Menu, the UI gets an error, renderer,
\* world and player are absent and every renderer constructed is disposed.
C8_ConnectFailureCleansUp ==
    [][(/\ lastOp' = <<"connectRejected", "">>
        /\ world = Null
        /\ renderer # Null
        /\ LiveRenderers = {renderer}) =>
          /\ state' = MENU
          /\ "ui.showError" \in Range(calls')
          /\ renderer' = Null /\ world' = Null /\ player' = Null
          /\ \A i \in 1..rendererCount' : rendererDisposals'[i] = 1]_vars

DisposedAtMostOnce ==
    \A i \in Instances : rendererDisposals[i] <= 1 /\ worldDisposals[i] <= 1

\* C9: no renderer and no world is ever disposed twice, and a teardown run on
\* a context with no renderer and no world (by a handler that constructs
\* none) raises no fault and calls dispose on nothing.
C9_TeardownIdempotent ==
    /\ []DisposedAtMostOnce
    /\ [][(/\ RanTeardown'
           /\ renderer = Null /\ world = Null
           /\ rendererCount' = rendererCount /\ worldCount' = worldCount) =>
             /\ ~fault'
             /\ "renderer.dispose" \notin Range(calls')
             /\ "world.dispose" \notin Range(calls')
             /\ rendererDisposals' = rendererDisposals
             /\ worldDisposals' = worldDisposals]_vars

\* a teardown ran on a context an earlier teardown had already torn down
C9_Witness ==
    /\ lastOp = <<"setState", MENU>>
    /\ RanTeardown
    /\ "renderer.dispose" \notin Range(calls)
    /\ "world.dispose" \notin Range(calls)
    /\ rendererDisposals[1] = 1
    /\ worldDisposals[1] = 1

FrameRank(c) ==
    CASE c = "world.update" -> 1
      [] c = "player.update" -> 2
      [] c = "renderer.render" -> 3
      [] c = "ui.update" -> 4
      [] OTHER -> 0

IsFrameCall(c) == FrameRank(c) > 0

FrameCalls == SelectSeq(calls, IsFrameCall)

\* C10: the frame calls a handler makes are in the order world.update,
\* player.update, renderer.render, ui.update, none of them twice (a handler
\* runs one pass at most), and ui.update ends the pass.
C10_PassOrder ==
    /\ \A i, j \in 1..Len(FrameCalls) :
          i < j => FrameRank(FrameCalls[i]) < FrameRank(FrameCalls[j])
    /\ Len(FrameCalls) > 0 => FrameCalls[Len(FrameCalls)] = "ui.update"

\* a frame callback ran a pass with world, player and renderer present
C10_Witness ==
    /\ RanFrame
    /\ FrameCalls = <<"world.update", "player.update", "renderer.render",
                      "ui.update">>

\* the handler of this step ran a frame pass / assigned fps
RanPass == "ui.update" \in Range(calls)

Sampled == fpsUpdateTime' # fpsUpdateTime

\* C11: fps is assigned at most once per one-second window and a pass assigns
\* it as soon as the window has elapsed: an assignment comes at least 1000 ms
\* after the previous one (after time 0 for the first), a pass that does not
\* assign is less than 1000 ms after the previous assignment, and the value
\* assigned is the number of passes run since the previous assignment, the
\* assigning pass included.
C11_FpsOncePerWindow ==
    [][/\ Sampled => /\ fpsUpdateTime' - fpsUpdateTime >= FpsWindow
                     /\ fps' = passesSeen + 1
                     /\ RanPass'
       /\ (RanPass' /\ ~Sampled) => now - fpsUpdateTime < FpsWindow]_vars

\* fps was assigned a second time, counting two passes
C11_Witness ==
    /\ RanPass
    /\ samples = 2
    /\ fps = 2
    /\ fpsUpdateTime = now

\* C12: saveGame with a World and a Player held hands StorageManager.saveGame
\* one record whose world, player and settings snapshots are present and whose
\* timestamp is not earlier than the time of the call; when the storage
\* rejects, the handler calls ui.showError, lets no fault escape, and leaves
\* the mode, the session references and the frame loop as they were.
C12_SaveHandsRecord ==
    [][/\ (lastOp'[1] = "saveGame" /\ world # Null /\ player # Null) =>
             /\ Len(savePending') = Len(savePending) + 1
             /\ LET r == savePending'[Len(savePending')]
                IN  /\ r.world # Null
                    /\ r.player # Null
                    /\ r.settings # Null
                    /\ r.timestamp >= now
             /\ "StorageManager.saveGame" \in Range(calls')
       /\ lastOp'[1] = "saveRejected" =>
             /\ "ui.showError" \in Range(calls')
             /\ ~fault'
             /\ state' = state
             /\ renderer' = renderer /\ world' = world /\ player' = player
             /\ isGameRunning' = isGameRunning
             /\ rafPending' = rafPending]_vars

\* the storage rejected the save of a running session, after the clock moved
C12_Witness ==
    /\ lastOp[1] = "saveRejected"
    /\ "ui.showError" \in Range(calls)
    /\ SessionHeld
    /\ state = SINGLE_PLAYER
    /\ now > 0

\* C13: from Menu, the request to start a single-player session that carries
\* a seed, startSinglePlayer(name, s, type), when no construction fails,
\* leaves the mode SinglePlayer, a World constructed with seed s, a Player,
\* and the frame loop scheduled.
C13_SeededStart ==
    [][(/\ lastOp'[1] = "startSinglePlayer"
        /\ lastOp'[2] # ToString(Null)
        /\ state = MENU
        /\ "ui.showError" \notin Range(calls')) =>
             /\ state' = SINGLE_PLAYER
             /\ ToString(worldSeed') = lastOp'[2]
             /\ world' # Null /\ player' # Null
             /\ isGameRunning' /\ rafPending' > rafPending]_vars

\* C14: once init has completed, the three worker channels and their message
\* handlers are the ones initWorkers constructed, three Worker instances in
\* all: no handler has constructed another, replaced or removed one.
C14_WorkersKept ==
    isInitialized => /\ workers = WorkerKinds
                     /\ workerCount = Cardinality(WorkerKinds)

\* a worker message is still handled after a session was started, quit and
\* another started
C14_Witness ==
    /\ lastOp[1] = "workerMessage"
    /\ calls # <<>>
    /\ ~fault
    /\ workers = WorkerKinds
    /\ rendererDisposals[1] = 1
    /\ worldCount = 2

\* C15: when a step of init fails, the handler reports it through
\* ui.showError and no fault escapes init, whichever step failed.
C15_InitFailureReported ==
    (lastOp[1] = "init" /\ lastOp[2] # "none") =>
        /\ "ui.showError" \in Range(calls)
        /\ ~fault

TeardownRank(c) ==
    CASE c = "renderer.dispose" -> 1
      [] c = "world.dispose" -> 2
      [] c = "multiplayer.disconnect" -> 3
      [] OTHER -> 0

IsTeardownCall(c) == TeardownRank(c) > 0

TeardownCalls == SelectSeq(calls, IsTeardownCall)

\* C16: the disposal calls a handler makes are in the order renderer.dispose,
\* world.dispose, multiplayer.disconnect; a handler that ran the teardown
\* leaves the run flag cleared and makes no renderer.render call after
\* renderer.dispose; and the renderer held, the one a later pass renders, is
\* never a disposed one.
C16_TeardownOrder ==
    /\ \A i, j \in 1..Len(TeardownCalls) :
          i < j => TeardownRank(TeardownCalls[i]) < TeardownRank(TeardownCalls[j])
    /\ \A i, j \in 1..Len(calls) :
          (i < j /\ calls[i] = "renderer.dispose") => calls[j] # "renderer.render"
    /\ RanTeardown => ~isGameRunning
    /\ renderer # Null => rendererDisposals[renderer] = 0

\* a quit tore down a live session, all three disposals made, while a frame
\* callback was still queued
C16_Witness ==
    /\ lastOp = <<"setState", MENU>>
    /\ TeardownCalls = <<"renderer.dispose", "world.dispose",
                         "multiplayer.disconnect">>
    /\ rafPending > 0

\* C17: after resumeGame at most one requestAnimationFrame callback for
\* gameLoop is pending.
C17_OneFrameChain == lastOp[1] = "resumeGame" => rafPending <= 1

\* C18: a connect that resolves while the mode is Menu (no constructor
\* failing) constructs no World
\* and no Player and schedules no frame; a connect that rejects while the
\* mode is SinglePlayer leaves that session's mode, renderer and world.
C18_StaleConnectIgnored ==
    [][/\ (lastOp' = <<"connectResolved", "none">> /\ state = MENU) =>
             /\ worldCount' = worldCount /\ world' = world
             /\ playerCount' = playerCount /\ player' = player
             /\ rafPending' = rafPending
       /\ (lastOp'[1] = "connectRejected" /\ state = SINGLE_PLAYER) =>
             /\ state' = state
             /\ renderer' = renderer /\ world' = world]_vars

\* C19: a loadGame that finds its record while the mode is Menu, and starts
\* the session without a failure, leaves the mode SinglePlayer.
C19_LoadEntersSinglePlayer ==
    [][(/\ lastOp' = <<"loadResolved", "record">>
        /\ "ui.showMessage" \in Range(calls')
        /\ state = MENU) => state' = SINGLE_PLAYER]_vars

\* C20: a frame callback that calls player.update, renderer.render or
\* ui.update runs with a World held, so calls world.update first.
C20_PassNeedsWorld ==
    (/\ RanFrame
     /\ \E c \in {"player.update", "renderer.render", "ui.update"} :
           c \in Range(calls)) => "world.update" \in Range(calls)

====
